---- MODULE Spec2Model ----
(***************************************************************************)
(* Model of sandpiper_compile (src/mcp-sandpipersaas.py): the tool that    *)
(* packs TL-Verilog sources into an in-memory zip, POSTs it to the         *)
(* SandPiper compile service, and unpacks the returned zip.                *)
(*                                                                         *)
(* Conventions.  A path or archive entry name is the sequence of its       *)
(* "/"-separated segments ("abc/out/" is <<"abc","out","">>, "/o" is       *)
(* <<"","o">>).  A byte or text string is a sequence of symbols; "CR" and  *)
(* "LF" are the two line-ending bytes and "xFF" is a byte that is not      *)
(* valid UTF-8.  An Optional value is the empty set (None) or a singleton. *)
(***************************************************************************)
EXTENDS Integers, Sequences, FiniteSets, TLC

VARIABLES
    req,            \* the arguments of this invocation
    service,        \* what the remote service will answer to the POST
    pc,             \* position in sandpiper_compile
    endpoint,       \* local: endpoint after defaulting
    extraction_dir, \* local: extraction_dir
    flags,          \* local: flags
    args_field,     \* local: args_field
    zip_entries,    \* entries written to the input archive so far
    zip_buffer,     \* "none" | "open" | "closed": the io.BytesIO
    posts,          \* the POSTs issued (payloads, in order)
    exit_code, stdout_output, stderr_output,
    idx,            \* position of the extraction loop in namelist()
    summary,        \* local: summary (its lines)
    files,          \* files written on the local filesystem (absolute)
    dirs,           \* directories created on the local filesystem
    result          \* how the call ended

vars == <<req, service, pc, endpoint, extraction_dir, flags, args_field,
          zip_entries, zip_buffer, posts, exit_code, stdout_output,
          stderr_output, idx, summary, files, dirs, result>>

---------------------------------------------------------------------------
(* Optional values *)
None == {}
Some(x) == {x}
Val(o) == CHOOSE x \in o : TRUE

(* Bounds of the input families *)
MaxTrueFlags == 2
MaxIncludes == 2
MaxEntries == 2

---------------------------------------------------------------------------
(* Paths: posixpath on sequences of segments *)

Cwd == <<"w">>

IsAbs(p) == Len(p) >= 2 /\ p[1] = ""

\* Path(p).name
BaseName(p) == p[Len(p)]

\* Path(p).parent / os.path.dirname(p)
Parent(p) == SubSeq(p, 1, Len(p) - 1)

RECURSIVE NormFrom(_, _)
\* posixpath.normpath of an absolute path: "" and "." dropped, ".." pops
NormFrom(stack, rest) ==
    IF rest = <<>> THEN stack
    ELSE LET s == Head(rest) IN
         IF s = "" \/ s = "." THEN NormFrom(stack, Tail(rest))
         ELSE IF s = ".."
              THEN NormFrom(IF stack = <<>> THEN <<>>
                            ELSE SubSeq(stack, 1, Len(stack) - 1), Tail(rest))
              ELSE NormFrom(Append(stack, s), Tail(rest))

\* posixpath.abspath: the segments below the root
AbsPath(p) == NormFrom(<<>>, IF IsAbs(p) THEN p ELSE Cwd \o p)

RECURSIVE CommonLen(_, _)
CommonLen(a, b) ==
    IF a = <<>> \/ b = <<>> \/ Head(a) # Head(b) THEN 0
    ELSE 1 + CommonLen(Tail(a), Tail(b))

\* A relpath that only cuts the prefix off, without normalising (variant with a fault)
RelPathNoNorm(path, start) ==
    LET s == SelectSeq(start, LAMBDA x : x # "")
    IN  SubSeq(path, Len(s) + 1, Len(path))

\* os.path.relpath(path, start)
RelPath(path, start) ==
    LET start_list == AbsPath(start)
        path_list == AbsPath(path)
        i == CommonLen(start_list, path_list)
        rel_list == [k \in 1..(Len(start_list) - i) |-> ".."]
                    \o SubSeq(path_list, i + 1, Len(path_list))
    IN  IF rel_list = <<>> THEN <<".">> ELSE rel_list

\* os.path.dirname(p)
Dirname(p) == IF Len(p) = 2 /\ p[1] = "" THEN <<"", "">> ELSE Parent(p)

\* The directories that os.makedirs(d) needs to exist: d and its ancestors
Ancestors(d) == {SubSeq(d, 1, k) : k \in 1..Len(d)}

\* os.path.join(a, b)
Join(a, b) ==
    IF IsAbs(b) THEN b
    ELSE IF a = <<>> \/ a = <<"">> THEN b
    ELSE IF a[Len(a)] = "" THEN SubSeq(a, 1, Len(a) - 1) \o b
    ELSE a \o b

\* str.startswith('..') on the first segment of a path
DotDotPrefixed(seg) == seg \in {"..", "..x.sv"}

\* fn.startswith(f"{compile_id}/out/")
StartsWithOut(fn, cid) ==
    LET p == cid \o <<"out">>
    IN  Len(fn) > Len(p) /\ SubSeq(fn, 1, Len(p)) = p

---------------------------------------------------------------------------
(* Text *)

\* bytes.decode('utf-8') succeeds
DecodeOk(bytes) == \A i \in 1..Len(bytes) : bytes[i] # "xFF"

RECURSIVE UniversalNewlines(_)
\* text-mode reading with newline=None: "\r\n" and "\r" become "\n"
UniversalNewlines(t) ==
    IF t = <<>> THEN <<>>
    ELSE IF Head(t) = "CR"
         THEN IF Len(t) >= 2 /\ t[2] = "LF"
              THEN <<"LF">> \o UniversalNewlines(SubSeq(t, 3, Len(t)))
              ELSE <<"LF">> \o UniversalNewlines(Tail(t))
         ELSE <<Head(t)>> \o UniversalNewlines(Tail(t))

\* The local files of the run: path |-> bytes, or None for a missing file
FileBytes(p) ==
    CASE p = <<"top.tlv">>        -> Some(<<"t", "LF">>)
      [] p = <<"inc", "a.tlv">>   -> Some(<<"a", "CR", "LF", "b">>)
      [] p = <<"", "lib", "b.tlv">> -> Some(<<"b">>)
      [] p = <<"bin.tlv">>        -> Some(<<"x", "xFF">>)
      [] OTHER                    -> None

\* Path(p).read_text(encoding='utf-8'): None where it raises (the file is
\* missing or is not UTF-8), else the text it returns
ReadText(p) ==
    IF FileBytes(p) = None \/ ~DecodeOk(Val(FileBytes(p))) THEN None
    ELSE Some(UniversalNewlines(Val(FileBytes(p))))

\* top_path.with_suffix(".sv").name
WithSuffixSv(name) ==
    CASE name = "top.tlv" -> "top.sv"
      [] name = "a.tlv"   -> "a.sv"
      [] name = "b.tlv"   -> "b.sv"
      [] name = "bin.tlv" -> "bin.sv"
      [] name = "gone.tlv" -> "gone.sv"
      [] OTHER            -> name

---------------------------------------------------------------------------
(* Flags *)

\* The "if <param>: flags..." statements, in source order
FlagTable == <<
    [param |-> "bestsv", token |-> "--bestsv", kind |-> "bool"],
    [param |-> "clkAlways", token |-> "--clkAlways", kind |-> "bool"],
    [param |-> "clkEnable", token |-> "--clkEnable", kind |-> "bool"],
    [param |-> "clkGate", token |-> "--clkGate", kind |-> "bool"],
    [param |-> "clkStageAlways", token |-> "--clkStageAlways", kind |-> "bool"],
    [param |-> "compiler", token |-> "--compiler", kind |-> "str"],
    [param |-> "conversion", token |-> "--conversion", kind |-> "bool"],
    [param |-> "debugSigs", token |-> "--debugSigs", kind |-> "bool"],
    [param |-> "debugSigsGtkwave", token |-> "--debugSigsGtkwave", kind |-> "bool"],
    [param |-> "debugSigsYosys", token |-> "--debugSigsYosys", kind |-> "bool"],
    [param |-> "fmtDeclSingleton", token |-> "--fmtDeclSingleton", kind |-> "bool"],
    [param |-> "fmtEscapedNames", token |-> "--fmtEscapedNames", kind |-> "bool"],
    [param |-> "fmtFlatSignals", token |-> "--fmtFlatSignals", kind |-> "bool"],
    [param |-> "fmtFullHdlHier", token |-> "--fmtFullHdlHier", kind |-> "bool"],
    [param |-> "fmtInlineInjection", token |-> "--fmtInlineInjection", kind |-> "bool"],
    [param |-> "fmtNoRespace", token |-> "--fmtNoRespace", kind |-> "bool"],
    [param |-> "fmtPack", token |-> "--fmtPack", kind |-> "int"],
    [param |-> "fmtPackAll", token |-> "--fmtPackAll", kind |-> "bool"],
    [param |-> "fmtPackBooleans", token |-> "--fmtPackBooleans", kind |-> "bool"],
    [param |-> "fmtStripUniquifiers", token |-> "--fmtStripUniquifiers", kind |-> "bool"],
    [param |-> "fmtUseGenerate", token |-> "--fmtUseGenerate", kind |-> "bool"],
    [param |-> "hdl", token |-> "--hdl", kind |-> "str"],
    [param |-> "iArgs", token |-> "--iArgs", kind |-> "bool"],
    [param |-> "inlineGen", token |-> "--inlineGen", kind |-> "bool"],
    [param |-> "license", token |-> "--license", kind |-> "bool"],
    [param |-> "licenseFile", token |-> "--licenseFile", kind |-> "str"],
    [param |-> "noDirectiveComments", token |-> "--noDirectiveComments", kind |-> "bool"],
    [param |-> "noline", token |-> "--noline", kind |-> "bool"],
    [param |-> "nopath", token |-> "--nopath", kind |-> "bool"],
    [param |-> "p", token |-> "--p", kind |-> "str"],
    [param |-> "randomUnassigned", token |-> "--randomUnassigned", kind |-> "bool"],
    [param |-> "reset0", token |-> "--reset0", kind |-> "bool"],
    [param |-> "scrub", token |-> "--scrub", kind |-> "bool"],
    [param |-> "time", token |-> "--time", kind |-> "bool"],
    [param |-> "verbose", token |-> "--verbose", kind |-> "bool"],
    [param |-> "xclk", token |-> "--xclk", kind |-> "bool"],
    [param |-> "xinj", token |-> "--xinj", kind |-> "bool"]
    >>

BoolParams == {FlagTable[i].param : i \in {j \in 1..Len(FlagTable) : FlagTable[j].kind = "bool"}}
ValueParams == {FlagTable[i].param : i \in {j \in 1..Len(FlagTable) : FlagTable[j].kind # "bool"}}

\* "if debugSigsGtkwave:" pasted onto the debugSigsYosys line (variant with a fault)
FlagTakenCopyPaste(r, e) ==
    CASE e.kind = "bool" ->
            (IF e.param = "debugSigsYosys" THEN "debugSigsGtkwave" ELSE e.param)
                \in r.bools
      [] e.kind = "str"  -> r.vals[e.param] # None /\ Val(r.vals[e.param]) # ""
      [] e.kind = "int"  -> r.vals[e.param] # None

\* Truthiness used for every flag alike, "if fmtPack:" included (variant with a fault)
FlagTakenTruthy(r, e) ==
    CASE e.kind = "bool" -> e.param \in r.bools
      [] e.kind = "str"  -> r.vals[e.param] # None /\ Val(r.vals[e.param]) # ""
      [] e.kind = "int"  -> r.vals[e.param] # None /\ Val(r.vals[e.param]) # 0

\* The condition of one "if" of the flag section
FlagTaken(r, e) ==
    CASE e.kind = "bool" -> e.param \in r.bools
      [] e.kind = "str"  -> r.vals[e.param] # None /\ Val(r.vals[e.param]) # ""
      [] e.kind = "int"  -> r.vals[e.param] # None

\* What one taken "if" appends to flags
FlagTokens(r, e) ==
    CASE e.kind = "bool" -> <<e.token>>
      [] e.kind = "str"  -> <<e.token, Val(r.vals[e.param])>>
      [] e.kind = "int"  -> <<e.token, ToString(Val(r.vals[e.param]))>>

RECURSIVE CollectFrom(_, _)
CollectFrom(r, i) ==
    IF i > Len(FlagTable) THEN <<>>
    ELSE (IF FlagTaken(r, FlagTable[i]) THEN FlagTokens(r, FlagTable[i]) ELSE <<>>)
         \o CollectFrom(r, i + 1)

\* additional_args.split(): additional_args is a sequence of words and
\* whitespace runs " "
SplitArgs(s) == SelectSeq(s, LAMBDA x : x # " ")

\* flags after section 2
CollectFlags(r) ==
    CollectFrom(r, 1)
    \o (IF r.additional_args # <<>> THEN SplitArgs(r.additional_args) ELSE <<>>)


---------------------------------------------------------------------------
(* Section 1: defaults (lines 116-122) *)

DefaultEndpoint == "https://faas.makerchip.com/function/sandpiper-faas"

\* str(p.resolve()) of a directory, as a path string
Resolved(p) == IF AbsPath(p) = <<>> THEN <<"", "">> ELSE <<"">> \o AbsPath(p)

ExtractionDir(r) ==
    IF r.outdir = None THEN Resolved(Parent(r.top)) ELSE Val(r.outdir)

DefaultFile(r) ==
    IF r.o = None THEN <<WithSuffixSv(BaseName(r.top))>> ELSE Val(r.o)

OutputArg(r) ==
    IF r.outdir = None THEN DefaultFile(r) ELSE Join(Val(r.outdir), DefaultFile(r))

\* f"-i {top_path.name} -o {output_arg} {' '.join(flags)}", field by field
ArgsField(r) == [i |-> BaseName(r.top), o |-> OutputArg(r), flags |-> CollectFlags(r)]

---------------------------------------------------------------------------
(* Section 4: the input archive (lines 170-178) *)

\* The files written to the archive, in order: "if f: for fp in f", then top
InputOrder(r) == (IF r.f # None /\ Val(r.f) # <<>> THEN Val(r.f) ELSE <<>>) \o <<r.top>>

\* An archive builder that leaves out a file it cannot read (variant with a
\* fault: the try/except inside the loop)
InputArchiveSkipping(r) ==
    LET ord == SelectSeq(InputOrder(r), LAMBDA p : ReadText(p) # None)
    IN  [error |-> FALSE,
         entries |-> [k \in 1..Len(ord) |->
                        [name |-> BaseName(ord[k]), data |-> Val(ReadText(ord[k]))]]]

\* The "with zipfile.ZipFile(...)" block: the entries written, and whether an
\* exception left it
InputArchive(r) ==
    LET ord == InputOrder(r)
        bad == {k \in 1..Len(ord) : ReadText(ord[k]) = None}
        n == IF bad = {} THEN Len(ord)
             ELSE (CHOOSE k \in bad : \A j \in bad : k <= j) - 1
    IN  [error |-> bad # {},
         entries |-> [k \in 1..n |->
                        [name |-> BaseName(ord[k]), data |-> Val(ReadText(ord[k]))]]]

---------------------------------------------------------------------------
(* Section 6: the response archive (lines 196-212) *)

MetaNames == <<"status", "stdout", "stderr">>

\* The bytes the service stores under a status/stdout/stderr entry
MetaBytes(s, name) ==
    IF s.meta[name] = "garbled" THEN <<"xFF">>
    ELSE CASE name = "status" -> <<"0">>
           [] name = "stdout" -> <<"o", "k", "CR", "LF">>
           [] name = "stderr" -> <<>>

\* resp_zip.namelist()
NameList(s) ==
    [k \in 1..Len(SelectSeq(MetaNames, LAMBDA n : s.meta[n] # "missing")) |->
        <<SelectSeq(MetaNames, LAMBDA n : s.meta[n] # "missing")[k]>>]
    \o s.names

\* A _read whose placeholder does not name the entry (variant with a fault)
ReadEntryAnonymous(s, name) ==
    IF s.meta[name] = "missing" \/ ~DecodeOk(MetaBytes(s, name))
    THEN <<"<Error reading ", "entry", ">">>
    ELSE MetaBytes(s, name)

\* _read(name)
ReadEntry(s, name) ==
    IF s.meta[name] = "missing" \/ ~DecodeOk(MetaBytes(s, name))
    THEN <<"<Error reading ", name, ">">>
    ELSE MetaBytes(s, name)

\* "if compile_id:"
HasCompileId(s) == s.compile_id # None /\ Val(s.compile_id) # <<"">>

NoCompileIdLine == [text |-> "No compile_id; no files extracted.", path |-> <<>>]
ExtractedLine(tgt) == [text |-> "Extracted: ", path |-> tgt]

NoResult == [kind |-> "none", exit_code |-> <<>>, stdout |-> <<>>,
             stderr |-> <<>>, files |-> <<>>]
ErrorResult(k) == [NoResult EXCEPT !.kind = k]

---------------------------------------------------------------------------
(* The steps of sandpiper_compile *)

\* lines 116-167
Prepare ==
    /\ pc = "start"
    /\ endpoint' = (IF req.endpoint = None THEN DefaultEndpoint ELSE Val(req.endpoint))
    /\ extraction_dir' = ExtractionDir(req)
    /\ flags' = CollectFlags(req)
    /\ args_field' = ArgsField(req)
    /\ pc' = "zip"
    /\ UNCHANGED <<req, service, zip_entries, zip_buffer, posts, exit_code,
                   stdout_output, stderr_output, idx, summary, files, dirs, result>>

\* lines 170-178
BuildZip ==
    /\ pc = "zip"
    /\ zip_buffer' = "open"
    /\ zip_entries' = InputArchive(req).entries
    /\ IF InputArchive(req).error
       THEN pc' = "done" /\ result' = ErrorResult("Error creating input zip")
       ELSE pc' = "post" /\ result' = result
    /\ UNCHANGED <<req, service, endpoint, extraction_dir, flags, args_field, posts,
                   exit_code, stdout_output, stderr_output, idx, summary, files, dirs>>

\* lines 181-187
Payload ==
    [url |-> endpoint,
     args |-> args_field,
     IAgreeToSLA |-> "true",
     sv_url_inc |-> "false",
     default_includes |-> "false",
     context |-> [filename |-> "context.zip", entries |-> zip_entries]]

\* lines 188-193
Post ==
    /\ pc = "post"
    /\ posts' = Append(posts, Payload)
    /\ zip_buffer' = "closed"
    /\ IF service.transport = "error"
       THEN pc' = "done" /\ result' = ErrorResult("Error accessing compile service")
       ELSE pc' = "parse" /\ result' = result
    /\ UNCHANGED <<req, service, endpoint, extraction_dir, flags, args_field,
                   zip_entries, exit_code, stdout_output, stderr_output, idx,
                   summary, files, dirs>>

\* lines 196-213, 224-225
Parse ==
    /\ pc = "parse"
    /\ IF ~service.zip_ok
       THEN /\ pc' = "done"
            /\ result' = ErrorResult("Error extracting response zip")
            /\ UNCHANGED <<exit_code, stdout_output, stderr_output, idx, summary>>
       ELSE /\ exit_code' = ReadEntry(service, "status")
            /\ stdout_output' = ReadEntry(service, "stdout")
            /\ stderr_output' = ReadEntry(service, "stderr")
            /\ idx' = 1
            /\ summary' = (IF HasCompileId(service) THEN <<>> ELSE <<NoCompileIdLine>>)
            /\ pc' = "extract"
            /\ result' = result
    /\ UNCHANGED <<req, service, endpoint, extraction_dir, flags, args_field,
                   zip_entries, zip_buffer, posts, files, dirs>>

\* What the loop body does with one entry: "pass" (not under <id>/out/),
\* "skip" (the continue of line 218) or "write"
Disposition(fn, cid) ==
    IF ~StartsWithOut(fn, cid) THEN "pass"
    ELSE IF DotDotPrefixed(RelPath(fn, cid \o <<"out", "">>)[1]) THEN "skip"
    ELSE "write"

\* line 219
Target(fn, cid, dir) == Join(dir, RelPath(fn, cid \o <<"out", "">>))

\* One iteration of the loop of lines 215-223.  An OSError out of makedirs,
\* open or copyfileobj is not caught and leaves the function.
ExtractStep ==
    /\ pc = "extract"
    /\ HasCompileId(service)
    /\ idx <= Len(NameList(service))
    /\ LET fn == NameList(service)[idx]
           cid == Val(service.compile_id)
           tgt == Target(fn, cid, extraction_dir)
           loc == AbsPath(tgt)
           need == Ancestors(AbsPath(Dirname(tgt)))
           raise == /\ pc' = "done"
                    /\ result' = ErrorResult("raised")
                    /\ UNCHANGED <<idx, summary>>
       IN  IF Disposition(fn, cid) # "write"
           THEN /\ idx' = idx + 1
                /\ UNCHANGED <<pc, summary, files, dirs, result>>
           ELSE \E fault \in {"none", "makedirs", "open", "copy"} :
                IF fault = "makedirs" \/ need \cap files # {}
                THEN raise /\ UNCHANGED <<files, dirs>>
                ELSE IF fault = "open" \/ loc \in dirs \cup need
                THEN raise /\ dirs' = dirs \cup need /\ files' = files
                ELSE IF fault = "copy"
                THEN raise /\ dirs' = dirs \cup need /\ files' = files \cup {loc}
                ELSE /\ dirs' = dirs \cup need
                     /\ files' = files \cup {loc}
                     /\ summary' = Append(summary, ExtractedLine(tgt))
                     /\ idx' = idx + 1
                     /\ UNCHANGED <<pc, result>>
    /\ UNCHANGED <<req, service, endpoint, extraction_dir, flags, args_field,
                   zip_entries, zip_buffer, posts, exit_code, stdout_output,
                   stderr_output>>

\* lines 228-233
Return ==
    /\ pc = "extract"
    /\ ~HasCompileId(service) \/ idx > Len(NameList(service))
    /\ result' = [kind |-> "summary", exit_code |-> exit_code,
                  stdout |-> stdout_output, stderr |-> stderr_output,
                  files |-> summary]
    /\ pc' = "done"
    /\ UNCHANGED <<req, service, endpoint, extraction_dir, flags, args_field,
                   zip_entries, zip_buffer, posts, exit_code, stdout_output,
                   stderr_output, idx, summary, files, dirs>>

Next == Prepare \/ BuildZip \/ Post \/ Parse \/ ExtractStep \/ Return

---------------------------------------------------------------------------
(* The invocations and service answers explored *)

RECURSIVE SubsetsUpTo(_, _)
SubsetsUpTo(S, n) ==
    IF n = 0 THEN {{}}
    ELSE SubsetsUpTo(S, n - 1)
         \cup {s \cup {x} : s \in SubsetsUpTo(S, n - 1), x \in S}

SeqsUpTo(S, n) == UNION {[1..k -> S] : k \in 0..n}

InputPaths == {<<"top.tlv">>, <<"inc", "a.tlv">>, <<"", "lib", "b.tlv">>,
               <<"bin.tlv">>, <<"gone.tlv">>}

NoValues == [q \in ValueParams |-> None]
SomeValues == [compiler |-> Some("vcs"), fmtPack |-> Some(12), hdl |-> Some("sv"),
               licenseFile |-> Some("lic/key"), p |-> Some("proj")]
ValueChoices ==
    [compiler : {None, Some(""), Some("vcs")},
     fmtPack : {None, Some(0), Some(12), Some(-1)},
     hdl : {None, Some(""), Some("sv")},
     licenseFile : {None, Some("lic/key")},
     p : {None, Some("proj")}]

PlainRequest ==
    [top |-> <<"top.tlv">>, f |-> None, o |-> None, endpoint |-> None,
     outdir |-> None, bools |-> {}, vals |-> NoValues, additional_args |-> <<>>,
     sv_url_inc |-> None, default_includes |-> None]

AllOk == [n \in {"status", "stdout", "stderr"} |-> "ok"]
ServiceDown == [transport |-> "error", zip_ok |-> FALSE, meta |-> AllOk,
                names |-> <<>>, compile_id |-> None]
ServicePlain == [ServiceDown EXCEPT !.transport = "ok", !.zip_ok = TRUE,
                    !.names = <<<<"abc", "out", "design.sv">>>>,
                    !.compile_id = Some(<<"abc">>)]

ArtifactNames ==
    {<<"abc", "out", "design.sv">>,
     <<"abc", "out", "..", "..", "etc", "passwd">>,
     <<"abc", "out", "sub", "..", "..", "..", "etc", "passwd">>,
     <<"abc", "out", "..", "..", "abc", "out", "x.sv">>,
     <<"abc", "out", "..x.sv">>,
     <<"abc", "out", "">>,
     <<"abc", "out", "sub", "">>,
     <<"abc", "out", "sub", "m.sv">>,
     <<"abc", "log.txt">>,
     <<"..", "out", "y.sv">>}

\* Flag combinations, against a service that is down
ArgRequests ==
    {[PlainRequest EXCEPT !.bools = b, !.vals = v] :
        b \in SubsetsUpTo(BoolParams, MaxTrueFlags),
        v \in {NoValues, SomeValues}}
    \cup
    {[PlainRequest EXCEPT !.bools = b, !.vals = v, !.additional_args = a] :
        b \in {{}, {"fmtPackAll", "license"}},
        v \in ValueChoices,
        a \in {<<>>, <<" ">>, <<"--foo", " ", "bar">>}}

\* Input files and POST fields
FileRequests ==
    {[PlainRequest EXCEPT !.top = t, !.f = f, !.o = c.o, !.endpoint = c.endpoint,
                          !.outdir = c.outdir, !.sv_url_inc = s, !.default_includes = d] :
        t \in InputPaths,
        f \in {None} \cup {Some(q) : q \in SeqsUpTo(InputPaths, MaxIncludes)},
        c \in {[o |-> None, endpoint |-> None, outdir |-> None],
               [o |-> Some(<<"out.sv">>), endpoint |-> Some("http://stub"),
                outdir |-> Some(<<"", "o">>)]},
        s \in {None, Some(TRUE), Some(FALSE)},
        d \in {None, Some(TRUE)}}

FileServices == {ServiceDown, [ServiceDown EXCEPT !.transport = "ok"], ServicePlain}

\* Response archives
ResponseRequests ==
    {[PlainRequest EXCEPT !.outdir = d] : d \in {None, Some(<<"", "o">>)}}

ResponseServices ==
    {[ServicePlain EXCEPT !.meta = m, !.names = n, !.compile_id = c] :
        m \in [{"status", "stdout", "stderr"} -> {"ok", "missing", "garbled"}],
        n \in SeqsUpTo(ArtifactNames, 1),
        c \in {None, Some(<<"">>), Some(<<"abc">>)}}
    \cup
    {[ServicePlain EXCEPT !.meta = m, !.names = n, !.compile_id = c] :
        m \in {AllOk, [AllOk EXCEPT !["stdout"] = "missing"]},
        n \in SeqsUpTo(ArtifactNames, MaxEntries),
        c \in {Some(<<"abc">>), Some(<<"..">>)}}

Init ==
    /\ \/ req \in ArgRequests /\ service = ServiceDown
       \/ req \in FileRequests /\ service \in FileServices
       \/ req \in ResponseRequests /\ service \in ResponseServices
    /\ pc = "start"
    /\ endpoint = ""
    /\ extraction_dir = <<>>
    /\ flags = <<>>
    /\ args_field = [i |-> "", o |-> <<>>, flags |-> <<>>]
    /\ zip_entries = <<>>
    /\ zip_buffer = "none"
    /\ posts = <<>>
    /\ exit_code = <<>>
    /\ stdout_output = <<>>
    /\ stderr_output = <<>>
    /\ idx = 0
    /\ summary = <<>>
    /\ files = {}
    /\ dirs = {}
    /\ result = NoResult

Spec == Init /\ [][Next]_vars

---------------------------------------------------------------------------
(* Properties *)

Done == pc = "done"
Returned == Done /\ result.kind = "summary"
Parsed == posts # <<>> /\ service.transport = "ok" /\ service.zip_ok
Includes(r) == IF r.f = None THEN <<>> ELSE Val(r.f)
Unreadable(p) ==
    FileBytes(p) = None \/ \E i \in 1..Len(Val(FileBytes(p))) : Val(FileBytes(p))[i] = "xFF"
InputUnreadable ==
    Unreadable(req.top) \/ \E k \in 1..Len(Includes(req)) : Unreadable(Includes(req)[k])

\* C1: if the primary file or any include file cannot be read or decoded as
\* UTF-8, the call returns the "Error creating input zip" string straight
\* from the archive step: no POST is ever issued and no file is written.
C1_NoPostOnUnreadableInput ==
    InputUnreadable =>
        /\ posts = <<>>
        /\ files = {}
        /\ pc \in {"start", "zip", "done"}
        /\ Done => result.kind = "Error creating input zip"

\* C1 witness: the call has returned the error because an include file is not
\* UTF-8 while the primary file is readable.
C1_Witness ==
    /\ Done
    /\ result.kind = "Error creating input zip"
    /\ ~Unreadable(req.top)
    /\ Includes(req) = <<<<"inc", "a.tlv">>, <<"bin.tlv">>>>
    /\ posts = <<>>

\* C2: a candidate artifact that cannot be written does not abort the
\* extraction: once the response archive is open the call always ends by
\* returning the summary, with every entry of the archive processed.
C2_WriteFailureDoesNotAbort ==
    (Done /\ Parsed) =>
        /\ result.kind = "summary"
        /\ HasCompileId(service) => idx = Len(NameList(service)) + 1

\* The extraction directory and an entry's place relative to it
IsPrefix(a, b) == Len(a) <= Len(b) /\ SubSeq(b, 1, Len(a)) = a
UnderExtractionDir(loc) == IsPrefix(AbsPath(extraction_dir), loc)
Stripped(fn, cid) == SubSeq(fn, Len(cid) + 2, Len(fn))
StrippedEscapes(fn, cid) ==
    ~IsPrefix(AbsPath(extraction_dir), AbsPath(Join(extraction_dir, Stripped(fn, cid))))
ResolvesOutsideOut(fn, cid) == ~IsPrefix(AbsPath(cid \o <<"out">>), AbsPath(fn))
AtEntry == pc = "extract" /\ HasCompileId(service) /\ idx <= Len(NameList(service))
CurrentEntry == NameList(service)[idx]
CompileId == Val(service.compile_id)
SkippedStep == files' = files /\ summary' = summary /\ pc' = "extract" /\ idx' = idx + 1

\* C3 as stated: no file is ever written outside the extraction directory,
\* and every entry under <compile_id>/out/ whose stripped relative path
\* escapes the extraction directory is skipped without aborting.
C3_EscapingStrippedPathSkipped ==
    [][/\ \A loc \in files' : UnderExtractionDir(loc)
       /\ (AtEntry /\ StartsWithOut(CurrentEntry, CompileId)
                   /\ StrippedEscapes(CurrentEntry, CompileId)) => SkippedStep]_vars

\* C3 amended: no file is ever written outside the extraction directory, and
\* every entry under <compile_id>/out/ whose name resolves to a place outside
\* the archive's <compile_id>/out/ directory is skipped without aborting, the
\* loop moving on to the next entry.
C3_NoWriteOutsideExtractionDir ==
    [][/\ \A loc \in files' : UnderExtractionDir(loc)
       /\ (AtEntry /\ StartsWithOut(CurrentEntry, CompileId)
                   /\ ResolvesOutsideOut(CurrentEntry, CompileId)) => SkippedStep]_vars

\* C3 witness: abc/out/../../etc/passwd was passed over and the entry after it
\* was extracted into the extraction directory.
C3_Witness ==
    /\ Returned
    /\ service.names = <<<<"abc", "out", "..", "..", "etc", "passwd">>,
                         <<"abc", "out", "design.sv">>>>
    /\ service.compile_id = Some(<<"abc">>)
    /\ files = {<<"o", "design.sv">>}

\* C4: the files written are determined by the compile_id header: without it
\* (or with an empty one) nothing is written and the summary says so; with it, exactly the entries
\* under <compile_id>/out/ that do not escape the extraction directory are
\* written, each to the extraction directory joined with its stripped path,
\* and the summary lists each written path.
C4_FilesDeterminedByCompileId ==
    (Done /\ Parsed) =>
        LET names == NameList(service)
            cand == {k \in 1..Len(names) :
                        /\ StartsWithOut(names[k], CompileId)
                        /\ ~StrippedEscapes(names[k], CompileId)}
            dest(k) == AbsPath(Join(extraction_dir, Stripped(names[k], CompileId)))
        IN  IF ~HasCompileId(service)
            THEN files = {} /\ Returned /\ result.files = <<NoCompileIdLine>>
            ELSE /\ files = {dest(k) : k \in cand}
                 /\ Returned
                 /\ {AbsPath(result.files[j].path) : j \in 1..Len(result.files)} = files

\* C5: the input archive buffer has been closed whenever the call has ended.
C5_BufferClosedOnExit == Done => zip_buffer = "closed"

ExpectedField(name) ==
    IF service.meta[name] = "ok" THEN MetaBytes(service, name)
    ELSE <<"<Error reading ", name, ">">>

\* C6: each of status, stdout and stderr that is missing or not UTF-8 is
\* replaced by a placeholder naming that entry, independently of the other
\* two; reading them never ends the call, and the summary carries them.
C6_PlaceholderPerEntry ==
    /\ (Parsed /\ pc \in {"extract", "done"}) =>
            /\ exit_code = ExpectedField("status")
            /\ stdout_output = ExpectedField("stdout")
            /\ stderr_output = ExpectedField("stderr")
            /\ result.kind # "Error extracting response zip"
    /\ Returned =>
            /\ result.exit_code = ExpectedField("status")
            /\ result.stdout = ExpectedField("stdout")
            /\ result.stderr = ExpectedField("stderr")

\* C6 witness: status is missing, stdout is not UTF-8, stderr is readable, and
\* the call still extracted an artifact and returned the summary.
C6_Witness ==
    /\ Returned
    /\ service.meta = [status |-> "missing", stdout |-> "garbled", stderr |-> "ok"]
    /\ files # {}
    /\ result.exit_code = <<"<Error reading ", "status", ">">>
    /\ result.stderr = <<>>

\* The boolean flags in the canonical order of the flag-to-token table
CanonicalFlags == <<
    [param |-> "bestsv", token |-> "--bestsv"],
    [param |-> "clkAlways", token |-> "--clkAlways"],
    [param |-> "clkEnable", token |-> "--clkEnable"],
    [param |-> "clkGate", token |-> "--clkGate"],
    [param |-> "clkStageAlways", token |-> "--clkStageAlways"],
    [param |-> "conversion", token |-> "--conversion"],
    [param |-> "debugSigs", token |-> "--debugSigs"],
    [param |-> "debugSigsGtkwave", token |-> "--debugSigsGtkwave"],
    [param |-> "debugSigsYosys", token |-> "--debugSigsYosys"],
    [param |-> "fmtDeclSingleton", token |-> "--fmtDeclSingleton"],
    [param |-> "fmtEscapedNames", token |-> "--fmtEscapedNames"],
    [param |-> "fmtFlatSignals", token |-> "--fmtFlatSignals"],
    [param |-> "fmtFullHdlHier", token |-> "--fmtFullHdlHier"],
    [param |-> "fmtInlineInjection", token |-> "--fmtInlineInjection"],
    [param |-> "fmtNoRespace", token |-> "--fmtNoRespace"],
    [param |-> "fmtPackAll", token |-> "--fmtPackAll"],
    [param |-> "fmtPackBooleans", token |-> "--fmtPackBooleans"],
    [param |-> "fmtStripUniquifiers", token |-> "--fmtStripUniquifiers"],
    [param |-> "fmtUseGenerate", token |-> "--fmtUseGenerate"],
    [param |-> "iArgs", token |-> "--iArgs"],
    [param |-> "inlineGen", token |-> "--inlineGen"],
    [param |-> "license", token |-> "--license"],
    [param |-> "noDirectiveComments", token |-> "--noDirectiveComments"],
    [param |-> "noline", token |-> "--noline"],
    [param |-> "nopath", token |-> "--nopath"],
    [param |-> "randomUnassigned", token |-> "--randomUnassigned"],
    [param |-> "reset0", token |-> "--reset0"],
    [param |-> "scrub", token |-> "--scrub"],
    [param |-> "time", token |-> "--time"],
    [param |-> "verbose", token |-> "--verbose"],
    [param |-> "xclk", token |-> "--xclk"],
    [param |-> "xinj", token |-> "--xinj"]
    >>
BoolTokens == {CanonicalFlags[i].token : i \in 1..Len(CanonicalFlags)}
TokensOf(es) == [k \in 1..Len(es) |-> es[k].token]

\* C7: the boolean-flag tokens of the argument string are exactly the --<name>
\* tokens of the flags set true, each once, in the canonical order, and none
\* of a flag set false (values and additional_args here hold no such token).
C7_BoolFlagsCanonical ==
    pc # "start" =>
        SelectSeq(args_field.flags, LAMBDA t : t \in BoolTokens)
            = TokensOf(SelectSeq(CanonicalFlags, LAMBDA e : e.param \in req.bools))

\* C7 witness: two boolean flags are set among value-bearing ones and the
\* argument string has been built.
C7_Witness ==
    /\ pc # "start"
    /\ req.bools = {"xinj", "bestsv"}
    /\ req.vals = SomeValues
    /\ args_field.flags[1] = "--bestsv"
    /\ args_field.flags[Len(args_field.flags)] = "--xinj"

ValueToken(q) ==
    CASE q = "compiler" -> "--compiler"
      [] q = "fmtPack" -> "--fmtPack"
      [] q = "hdl" -> "--hdl"
      [] q = "licenseFile" -> "--licenseFile"
      [] q = "p" -> "--p"
Verbatim(q, v) ==
    IF q = "fmtPack"
    THEN CASE v = 0 -> "0"
           [] v = 12 -> "12"
           [] v = -1 -> "-1"
    ELSE v
TokenThenValue(q) ==
    \E i \in 1..(Len(args_field.flags) - 1) :
        /\ args_field.flags[i] = ValueToken(q)
        /\ args_field.flags[i + 1] = Verbatim(q, Val(req.vals[q]))

\* C8 as stated: every value-bearing flag given a non-null value, the empty
\* string and the integer 0 included, appears as --<name> immediately
\* followed by the value.
C8_EveryNonNullValueEmitted ==
    pc # "start" => \A q \in {"compiler", "fmtPack", "hdl", "licenseFile", "p"} :
        req.vals[q] # None => TokenThenValue(q)

\* C8 amended: every value-bearing flag given a non-null value other than the
\* empty string appears as --<name> immediately followed by the value
\* verbatim (fmtPack as its decimal string, 0 included).
C8_NonEmptyValueEmitted ==
    pc # "start" => \A q \in {"compiler", "fmtPack", "hdl", "licenseFile", "p"} :
        (req.vals[q] # None /\ (q = "fmtPack" \/ req.vals[q] # Some(""))) => TokenThenValue(q)

\* C8 witness: fmtPack is 0 and compiler is "vcs", and both are in the built
\* argument string.
C8_Witness ==
    /\ pc # "start"
    /\ req.vals["fmtPack"] = Some(0)
    /\ req.vals["compiler"] = Some("vcs")
    /\ TokenThenValue("fmtPack")
    /\ TokenThenValue("compiler")

\* C9: the archive sent as context holds one entry per include file, in the
\* caller's order, then the primary file last, each named by the file's base
\* name and holding that file's content.
C9_ArchiveHoldsInputs ==
    posts # <<>> =>
        LET ord == Includes(req) \o <<req.top>>
        IN  posts[1].context.entries
                = [k \in 1..Len(ord) |->
                     [name |-> ord[k][Len(ord[k])], data |-> Val(FileBytes(ord[k]))]]

BoolField(o) == IF o = Some(TRUE) THEN "true" ELSE "false"

\* C10: in every POST, IAgreeToSLA is "true", and sv_url_inc and
\* default_includes are "true" or "false" as the caller asked, "false" when
\* the caller did not say.
C10_IncludeFieldsFollowCaller ==
    \A k \in 1..Len(posts) :
        /\ posts[k].IAgreeToSLA = "true"
        /\ posts[k].sv_url_inc = BoolField(req.sv_url_inc)
        /\ posts[k].default_includes = BoolField(req.default_includes)

====
